---------------------------- MODULE Spec2Model ----------------------------
(***************************************************************************)
(* Model of the ornament crate: the Decorations tree                       *)
(* (src/src/decorations.rs), the Decorator builder (src/src/lib.rs) and    *)
(* the Text container (src/src/text.rs).                                   *)
(*                                                                         *)
(* A TextRange is a record with a kind field:                              *)
(*   [kind |-> "Range", len |-> n]        TextRange::Range(n)              *)
(*   [kind |-> "Decoration", d |-> t]     TextRange::Decoration(t)         *)
(* A Decorations is [face |-> f, fragments |-> <<TextRange, ...>>].        *)
(* Indices are 0-based as in the source; a Vec element i is seq[i + 1].    *)
(* A Rust panic (index out of bounds, slice index order, str slicing off   *)
(* a char boundary) aborts the call: the operators return ok |-> FALSE     *)
(* and the actions set panicked, after which nothing more runs.            *)
(***************************************************************************)
EXTENDS Integers, Sequences, FiniteSets, TLC

\* ------------------------------------------------------------- bounds
\* Longest text buffer, in bytes.
MaxLen == 4
\* Most append/set calls made on one Decorator after its construction.
MaxOps == 3
\* Longest text buffer of the append-only runs (SpecAppend).
MaxAppendLen == 6
\* Most segments of a partitioned buffer (SpecPlan).
MaxSegs == 4
\* Most append/set calls of the runs with well-formed arguments (SpecClean).
MaxCleanOps == 4

\* ------------------------------------------------------------- faces
\* The Face enum of the tests (src/src/lib.rs:188-192) and its Default impl.
Faces == {"Default", "Star", "Pipe"}
F_default == "Default"

\* The texts a caller appends, as byte sequences: the empty string, a
\* one-byte char, and a two-byte char (lead byte "L", continuation byte "c").
Texts == {<< >>, <<"a">>, <<"L", "c">>}

\* Offsets a caller passes to Decorator::set: the offsets of the longest
\* buffer, which lie beyond the end of every shorter one.
Offsets == 0..MaxLen

\* ------------------------------------------------------------- TextRange
Range(n) == [kind |-> "Range", len |-> n]
Decoration(d) == [kind |-> "Decoration", d |-> d]
None == [kind |-> "None"]
Panic == [kind |-> "Panic"]

\* Decorations::new
Decorations_new(face) == [face |-> face, fragments |-> << >>]

\* Decorations::with_len
with_len(face, len) == [face |-> face, fragments |-> <<Range(len)>>]

\* Decorations::sliced(lo..hi), 0-based and end-exclusive
sliced(d, lo, hi) == [face |-> d.face, fragments |-> SubSeq(d.fragments, lo + 1, hi)]

is_range(tr) == tr.kind = "Range"

is_decoration_face(tr, face) == tr.kind = "Decoration" /\ tr.d.face = face

RECURSIVE Decorations_len(_)
\* TextRange::len
TextRange_len(tr) ==
  IF tr.kind = "Range" THEN tr.len ELSE Decorations_len(tr.d)

RECURSIVE FoldLen(_, _, _)
FoldLen(frags, i, acc) ==
  IF i > Len(frags) THEN acc
  ELSE FoldLen(frags, i + 1,
               IF frags[i].kind = "Range" THEN acc + frags[i].len
               ELSE acc + Decorations_len(frags[i].d))

\* Decorations::len
Decorations_len(d) == FoldLen(d.fragments, 1, 0)

RECURSIVE IndexScan(_, _, _, _, _)
\* The loop of fragment_index_of: self.fragments[idx] panics once idx runs
\* past the Vec.
IndexScan(d, offset, idx, idx_offset, len) ==
  IF idx >= Len(d.fragments) THEN [ok |-> FALSE, idx |-> idx, off |-> idx_offset]
  ELSE LET len2 == len + TextRange_len(d.fragments[idx + 1])
       IN IF len2 >= offset THEN [ok |-> TRUE, idx |-> idx, off |-> idx_offset]
          ELSE IndexScan(d, offset, idx + 1, len2, len2)

RECURSIVE IndexScanNext(_, _, _, _, _)
IndexScanNext(d, offset, idx, idx_offset, len) ==
  IF idx >= Len(d.fragments) THEN [ok |-> FALSE, idx |-> idx, off |-> idx_offset]
  ELSE LET len2 == len + TextRange_len(d.fragments[idx + 1])
       IN IF len2 > offset \/ idx + 1 = Len(d.fragments)
          THEN [ok |-> TRUE, idx |-> idx, off |-> idx_offset]
          ELSE IndexScanNext(d, offset, idx + 1, len2, len2)

\* Decorations::fragment_index_of with the other tie-break: an offset on the
\* boundary between two runs resolves to the run that starts there.
fragment_index_of_next(d, offset) == IndexScanNext(d, offset, 0, 0, 0)

\* Decorations::fragment_index_of
fragment_index_of(d, offset) == IndexScan(d, offset, 0, 0, 0)

RECURSIVE keep_start(_, _)
\* TextRange::keep_start that does not shorten a Range: the whole run is kept.
keep_start_whole(tr, offset) ==
  IF offset = 0 THEN None
  ELSE IF tr.kind = "Decoration" THEN
    LET r == fragment_index_of(tr.d, offset)
    IN IF ~r.ok THEN Panic
       ELSE LET new == sliced(tr.d, 0, r.idx)
                k == keep_start(tr.d.fragments[r.idx + 1], offset - r.off)
            IN IF k.kind = "Panic" THEN Panic
               ELSE IF k.kind = "None" THEN Decoration(new)
               ELSE Decoration([new EXCEPT !.fragments = Append(@, k)])
  ELSE Range(tr.len)

\* TextRange::keep_start that keeps an empty remainder: Range(0) where the
\* source returns None.
keep_start_empty(tr, offset) ==
  IF offset = 0 THEN Range(0)
  ELSE IF tr.kind = "Decoration" THEN
    LET r == fragment_index_of(tr.d, offset)
    IN IF ~r.ok THEN Panic
       ELSE LET new == sliced(tr.d, 0, r.idx)
                k == keep_start(tr.d.fragments[r.idx + 1], offset - r.off)
            IN IF k.kind = "Panic" THEN Panic
               ELSE IF k.kind = "None" THEN Decoration(new)
               ELSE Decoration([new EXCEPT !.fragments = Append(@, k)])
  ELSE Range(offset)

\* TextRange::keep_start: None, Panic or the kept TextRange
keep_start(tr, offset) ==
  IF offset = 0 THEN None
  ELSE IF tr.kind = "Decoration" THEN
    LET r == fragment_index_of(tr.d, offset)
    IN IF ~r.ok THEN Panic
       ELSE LET new == sliced(tr.d, 0, r.idx)
                k == keep_start(tr.d.fragments[r.idx + 1], offset - r.off)
            IN IF k.kind = "Panic" THEN Panic
               ELSE IF k.kind = "None" THEN Decoration(new)
               ELSE Decoration([new EXCEPT !.fragments = Append(@, k)])
  ELSE Range(offset)

RECURSIVE keep_end(_, _)
\* TextRange::keep_end that forgets the fragments after the one it trims
keep_end_dropping_tail(tr, offset) ==
  IF TextRange_len(tr) <= offset THEN None
  ELSE IF tr.kind = "Decoration" THEN
    LET r == fragment_index_of(tr.d, offset)
    IN IF ~r.ok THEN Panic
       ELSE LET new == Decorations_new(tr.d.face)
                k == keep_end(tr.d.fragments[r.idx + 1], offset - r.off)
                head == IF k.kind = "None" THEN new.fragments
                        ELSE Append(new.fragments, k)
            IN IF k.kind = "Panic" THEN Panic
               ELSE Decoration([new EXCEPT !.fragments = head])
  ELSE Range(tr.len - offset)

\* TextRange::keep_end: None, Panic or the kept TextRange
keep_end(tr, offset) ==
  IF TextRange_len(tr) <= offset THEN None
  ELSE IF tr.kind = "Decoration" THEN
    LET r == fragment_index_of(tr.d, offset)
    IN IF ~r.ok THEN Panic
       ELSE LET new == Decorations_new(tr.d.face)
                k == keep_end(tr.d.fragments[r.idx + 1], offset - r.off)
                end == sliced(tr.d, r.idx + 1, Len(tr.d.fragments))
                head == IF k.kind = "None" THEN new.fragments
                        ELSE Append(new.fragments, k)
            IN IF k.kind = "Panic" THEN Panic
               ELSE Decoration([new EXCEPT !.fragments = head \o end.fragments])
  ELSE Range(tr.len - offset)


\* ------------------------------------------------------------- Decorations
\* Vec::last of a non-empty Vec
Last(frags) == frags[Len(frags)]

\* Vec::pop followed by Vec::push(x): the last element replaced
ReplaceLast(frags, x) == [frags EXCEPT ![Len(frags)] = x]

RECURSIVE Decorations_append(_, _, _)
\* Decorations::append with the merge into a trailing Range left out: the
\* length is always pushed as a new Range.
append_never_merging(d, face, len) ==
  IF d.face = face THEN [d EXCEPT !.fragments = Append(@, Range(len))]
  ELSE
    LET last_is_face == Len(d.fragments) > 0 /\ is_decoration_face(Last(d.fragments), face)
    IN IF last_is_face
       THEN [d EXCEPT !.fragments =
               ReplaceLast(@, Decoration(Decorations_append(Last(d.fragments).d, face, len)))]
       ELSE [d EXCEPT !.fragments = Append(@, Decoration(with_len(face, len)))]

\* Decorations::append with the recursion into a trailing Decoration of the
\* same face left out: a new Decoration is always pushed.
append_never_nesting(d, face, len) ==
  IF d.face = face THEN
    LET last_is_range == Len(d.fragments) > 0 /\ is_range(Last(d.fragments))
    IN IF last_is_range
       THEN [d EXCEPT !.fragments = ReplaceLast(@, Range(Last(d.fragments).len + len))]
       ELSE [d EXCEPT !.fragments = Append(@, Range(len))]
  ELSE [d EXCEPT !.fragments = Append(@, Decoration(with_len(face, len)))]

\* Decorations::append that forgets the trailing Range it merges into: the
\* popped length is dropped and Range(len) pushed.
append_losing_range(d, face, len) ==
  IF d.face = face THEN
    LET last_is_range == Len(d.fragments) > 0 /\ is_range(Last(d.fragments))
    IN IF last_is_range
       THEN [d EXCEPT !.fragments = ReplaceLast(@, Range(len))]
       ELSE [d EXCEPT !.fragments = Append(@, Range(len))]
  ELSE
    LET last_is_face == Len(d.fragments) > 0 /\ is_decoration_face(Last(d.fragments), face)
    IN IF last_is_face
       THEN [d EXCEPT !.fragments =
               ReplaceLast(@, Decoration(Decorations_append(Last(d.fragments).d, face, len)))]
       ELSE [d EXCEPT !.fragments = Append(@, Decoration(with_len(face, len)))]

\* Decorations::append
Decorations_append(d, face, len) ==
  IF d.face = face THEN
    LET last_is_range == Len(d.fragments) > 0 /\ is_range(Last(d.fragments))
    IN IF last_is_range
       THEN [d EXCEPT !.fragments = ReplaceLast(@, Range(Last(d.fragments).len + len))]
       ELSE [d EXCEPT !.fragments = Append(@, Range(len))]
  ELSE
    LET last_is_face == Len(d.fragments) > 0 /\ is_decoration_face(Last(d.fragments), face)
    IN IF last_is_face
       THEN [d EXCEPT !.fragments =
               ReplaceLast(@, Decoration(Decorations_append(Last(d.fragments).d, face, len)))]
       ELSE [d EXCEPT !.fragments = Append(@, Decoration(with_len(face, len)))]

\* Range<usize>::len: zero for a reversed range
range_len(start, end) == IF end > start THEN end - start ELSE 0

\* Vec::splice(start..=end, new): the drained range is start..end+1, and a
\* range whose start lies beyond its end panics before anything is removed.
splice(frags, start, end, new) ==
  IF start > end + 1 \/ end + 1 > Len(frags)
  THEN [ok |-> FALSE, fragments |-> frags]
  ELSE [ok |-> TRUE,
        fragments |-> SubSeq(frags, 1, start) \o new \o SubSeq(frags, end + 2, Len(frags))]

\* The offsets the fast path of Decorations::set hands to the nested tree:
\* the range it was given, unchanged.
nested_range(start, end, start_offset) == <<start, end>>

\* The general path of Decorations::set with the override pushed as a bare
\* Range of the enclosing tree instead of a Decoration of the new face.
set_general_plain(d, face, rstart, rend, s, e) ==
  LET ks == keep_start(d.fragments[s.idx + 1], rstart - s.off)
      ke == keep_end(d.fragments[e.idx + 1], rend - e.off)
      new_fragments ==
        (IF ks.kind = "None" THEN << >> ELSE <<ks>>)
        \o <<Range(range_len(rstart, rend))>>
        \o (IF ke.kind = "None" THEN << >> ELSE <<ke>>)
      sp == splice(d.fragments, s.idx, e.idx, new_fragments)
  IN IF ks.kind = "Panic" \/ ke.kind = "Panic" \/ ~sp.ok
     THEN [ok |-> FALSE, d |-> d]
     ELSE [ok |-> TRUE, d |-> [d EXCEPT !.fragments = sp.fragments]]

\* The general path of Decorations::set, once both offsets are resolved.
set_general(d, face, rstart, rend, s, e) ==
  LET ks == keep_start(d.fragments[s.idx + 1], rstart - s.off)
      ke == keep_end(d.fragments[e.idx + 1], rend - e.off)
      new_fragments ==
        (IF ks.kind = "None" THEN << >> ELSE <<ks>>)
        \o <<Decoration(with_len(face, range_len(rstart, rend)))>>
        \o (IF ke.kind = "None" THEN << >> ELSE <<ke>>)
      sp == splice(d.fragments, s.idx, e.idx, new_fragments)
  IN IF ks.kind = "Panic" \/ ke.kind = "Panic" \/ ~sp.ok
     THEN [ok |-> FALSE, d |-> d]
     ELSE [ok |-> TRUE, d |-> [d EXCEPT !.fragments = sp.fragments]]

RECURSIVE Decorations_set(_, _, _, _)
\* Decorations::set: ok |-> FALSE when the call panics, the tree untouched
Decorations_set(d, face, rstart, rend) ==
  LET s == fragment_index_of(d, rstart)
      e == fragment_index_of(d, rend)
  IN IF ~s.ok \/ ~e.ok THEN [ok |-> FALSE, d |-> d]
     ELSE IF s.idx = e.idx /\ d.fragments[s.idx + 1].kind = "Decoration" THEN
       LET nr == nested_range(rstart, rend, s.off)
           r == Decorations_set(d.fragments[s.idx + 1].d, face, nr[1], nr[2])
       IN IF ~r.ok THEN [ok |-> FALSE, d |-> d]
          ELSE [ok |-> TRUE, d |-> [d EXCEPT !.fragments[s.idx + 1] = Decoration(r.d)]]
     ELSE set_general(d, face, rstart, rend, s, e)

RECURSIVE Decorations_flatten(_)
RECURSIVE FlattenFrom(_, _, _)
FlattenFrom(d, i, acc) ==
  IF i > Len(d.fragments) THEN acc
  ELSE FlattenFrom(d, i + 1,
         IF d.fragments[i].kind = "Range"
         THEN Append(acc, <<d.face, d.fragments[i].len>>)
         ELSE acc \o Decorations_flatten(d.fragments[i].d))

RECURSIVE FlattenShallowFrom(_, _, _)
FlattenShallowFrom(d, i, acc) ==
  IF i > Len(d.fragments) THEN acc
  ELSE FlattenShallowFrom(d, i + 1,
         Append(acc, <<d.face, TextRange_len(d.fragments[i])>>))

\* Decorations::flatten that does not descend: a nested Decoration is emitted
\* as one run under the enclosing face.
flatten_shallow(d) == FlattenShallowFrom(d, 1, << >>)

\* Decorations::flatten: the (face, length) pairs, left to right
Decorations_flatten(d) == FlattenFrom(d, 1, << >>)

\* ------------------------------------------------------------- Text
\* str::is_char_boundary on the byte sequence
is_char_boundary(text, i) ==
  i = 0 \/ i = Len(text) \/ (i < Len(text) /\ text[i + 1] # "c")

\* &text[lo..hi]: panics when out of range, reversed or off a char boundary
str_slice(text, lo, hi) ==
  IF lo <= hi /\ hi <= Len(text) /\ is_char_boundary(text, lo) /\ is_char_boundary(text, hi)
  THEN [ok |-> TRUE, text |-> SubSeq(text, lo + 1, hi)]
  ELSE [ok |-> FALSE, text |-> << >>]

RECURSIVE BuildFrom(_, _, _, _, _)
\* The loop of Decorator::build over the flattened pairs
BuildFrom(text, flat, i, acc, fragments) ==
  IF i > Len(flat) THEN [ok |-> TRUE, fragments |-> fragments]
  ELSE LET sl == str_slice(text, acc, acc + flat[i][2])
       IN IF ~sl.ok THEN [ok |-> FALSE, fragments |-> << >>]
          ELSE BuildFrom(text, flat, i + 1, acc + flat[i][2],
                         Append(fragments, [text |-> sl.text, face |-> flat[i][1]]))

\* Decorator::build as a function of the buffer and the tree
build(text, d) == BuildFrom(text, Decorations_flatten(d), 1, 0, << >>)

RECURSIVE PlainFrom(_, _, _)
PlainFrom(t, i, acc) ==
  IF i > Len(t) THEN acc ELSE PlainFrom(t, i + 1, acc \o t[i].text)

\* Text::plain
plain(t) == PlainFrom(t, 1, << >>)

RECURSIVE TextLenFrom(_, _, _)
TextLenFrom(t, i, acc) ==
  IF i > Len(t) THEN acc ELSE TextLenFrom(t, i + 1, acc + Len(t[i].text))

\* Text::text_len
text_len(t) == TextLenFrom(t, 1, 0)

\* std::cmp::max / min as Decorator::set uses them
max(a, b) == IF a >= b THEN a ELSE b
min(a, b) == IF a <= b THEN a ELSE b

\* ------------------------------------------------------------- Decorator
VARIABLES
  text,          \* Decorator::text, a byte sequence
  current_face,  \* Decorator::current_face
  decorations,   \* Decorator::decorations
  panicked,      \* a call panicked: the program is gone
  built,         \* what build() returned, until the next append or set
  lastOp,        \* the last append or set call and its arguments
  before,        \* decorations as it was when that call began
  log,           \* the (face, length) appends made, while all were non-empty and no set ran
  nops,          \* append and set calls made since construction
  plan,          \* SpecPlan: the segments (face, text, method) of the buffer to build
  done,          \* SpecPlan: how many segments are appended
  pending        \* SpecPlan: segments appended under the default face, still to be set

vars == <<text, current_face, decorations, panicked, built, lastOp, before, log,
          nops, plan, done, pending>>

\* chained: the call is an append that follows an append under the same face
NoOp == [op |-> "none", face |-> F_default, start |-> 0, end |-> 0, len |-> 0,
         chained |-> FALSE]
NotBuilt == [state |-> "none", fragments |-> << >>]
Tainted == [pure |-> FALSE, calls |-> << >>]

\* Decorator::new
Decorator_new ==
  /\ text = << >>
  /\ current_face = F_default
  /\ decorations = Decorations_new(F_default)
  /\ lastOp = NoOp
  /\ log = [pure |-> TRUE, calls |-> << >>]

\* Decorator::with_text: new() followed by append(text)
with_text(t) ==
  /\ text = t
  /\ current_face = F_default
  /\ decorations = Decorations_append(Decorations_new(F_default), F_default, Len(t))
  /\ lastOp = [NoOp EXCEPT !.op = "append", !.len = Len(t)]
  /\ log = IF t = << >> THEN Tainted
           ELSE [pure |-> TRUE, calls |-> <<<<F_default, Len(t)>>>>]

Init ==
  /\ Decorator_new \/ \E t \in Texts : with_text(t)
  /\ panicked = FALSE
  /\ built = NotBuilt
  /\ before = Decorations_new(F_default)
  /\ nops = 0
  /\ plan = << >>
  /\ done = 0
  /\ pending = {}

\* Decorator::set_face
set_face(face) ==
  /\ ~panicked
  /\ current_face' = face
  /\ UNCHANGED <<text, decorations, panicked, built, lastOp, before, log, nops,
                 plan, done, pending>>

\* Decorator::reset_face
reset_face ==
  /\ ~panicked
  /\ current_face' = F_default
  /\ UNCHANGED <<text, decorations, panicked, built, lastOp, before, log, nops,
                 plan, done, pending>>

\* The body of Decorator::append under face `face`
AppendBody(face, t) ==
  /\ text' = text \o t
  /\ decorations' = Decorations_append(decorations, face, Len(t))
  /\ before' = decorations
  /\ lastOp' = [op |-> "append", face |-> face, start |-> 0, end |-> 0,
                len |-> Len(t),
                chained |-> (lastOp.op = "append" /\ lastOp.face = face)]
  /\ log' = IF log.pure /\ t # << >>
            THEN [log EXCEPT !.calls = Append(@, <<face, Len(t)>>)]
            ELSE Tainted
  /\ built' = NotBuilt
  /\ nops' = nops + 1
  /\ UNCHANGED panicked

\* The body of Decorator::set
SetBody(face, start, end) ==
  /\ LET safe_start == max(start, 0)
         safe_end == min(end, Decorations_len(decorations))
         r == Decorations_set(decorations, face, safe_start, safe_end)
     IN /\ decorations' = r.d
        /\ panicked' = ~r.ok
  /\ before' = decorations
  /\ lastOp' = [op |-> "set", face |-> face, start |-> start, end |-> end,
                len |-> 0, chained |-> FALSE]
  /\ log' = Tainted
  /\ built' = NotBuilt
  /\ nops' = nops + 1
  /\ UNCHANGED text

\* The body of Decorator::build
BuildBody ==
  LET r == build(text, decorations)
  IN /\ built' = [state |-> IF r.ok THEN "ok" ELSE "panic", fragments |-> r.fragments]
     /\ panicked' = ~r.ok
     /\ UNCHANGED <<text, current_face, decorations, lastOp, before, log, nops>>

\* Decorator::append
Decorator_append(t) ==
  /\ ~panicked
  /\ nops < MaxOps
  /\ Len(text) + Len(t) <= MaxLen
  /\ AppendBody(current_face, t)
  /\ UNCHANGED <<current_face, plan, done, pending>>

\* Decorator::set
Decorator_set(face, start, end) ==
  /\ ~panicked
  /\ nops < MaxOps
  /\ SetBody(face, start, end)
  /\ UNCHANGED <<current_face, plan, done, pending>>

\* Decorator::build
Decorator_build ==
  /\ ~panicked
  /\ built.state = "none"
  /\ BuildBody
  /\ UNCHANGED <<plan, done, pending>>

Next ==
  \/ \E face \in Faces : set_face(face)
  \/ reset_face
  \/ \E t \in Texts : Decorator_append(t)
  \/ \E face \in Faces, start \in Offsets, end \in Offsets : Decorator_set(face, start, end)
  \/ Decorator_build

Spec == Init /\ [][Next]_vars

\* ------------------------------------------------------------- append only
\* Decorator::append of a non-empty text on a builder that saw only such appends
append_nonempty(t) ==
  /\ ~panicked
  /\ log.pure
  /\ t # << >>
  /\ Len(text) + Len(t) <= MaxAppendLen
  /\ AppendBody(current_face, t)
  /\ UNCHANGED <<current_face, plan, done, pending>>

InitAppend == Init /\ log.pure

NextAppend ==
  \/ \E face \in Faces : set_face(face)
  \/ reset_face
  \/ \E t \in Texts : append_nonempty(t)
  \/ Decorator_build

SpecAppend == InitAppend /\ [][NextAppend]_vars


\* ------------------------------------------------------------- one buffer, built two ways
\* The callers of the crate documentation (src/src/lib.rs:23-60) build one
\* text by appending each part under its face, by appending under the default
\* face and calling set on the part's range, or by a mix of both.  A plan is
\* the buffer cut in segments, adjacent segments under different faces, each
\* with the method that gives it its face.
SegTexts == Texts \ {<< >>}

Segments == [face : Faces, text : SegTexts, method : {"append", "set"}]

IsPlan(p) ==
  /\ \A i \in 1..Len(p) : p[i].face = F_default => p[i].method = "append"
  /\ \A i \in 1..(Len(p) - 1) : p[i].face # p[i + 1].face

Plans == {p \in UNION {[1..n -> Segments] : n \in 1..MaxSegs} : IsPlan(p)}

RECURSIVE PlanText(_, _)
\* The text of the first n segments
PlanText(p, n) == IF n = 0 THEN << >> ELSE PlanText(p, n - 1) \o p[n].text

RECURSIVE AppendAll(_, _)
\* The tree after the first n segments were appended each under its face
AppendAll(p, n) ==
  IF n = 0 THEN Decorations_new(F_default)
  ELSE Decorations_append(AppendAll(p, n - 1), p[n].face, Len(p[n].text))

\* What build() returns when every segment is appended under its face
AppendBuilt(p) == build(PlanText(p, Len(p)), AppendAll(p, Len(p)))

InitPlan ==
  /\ Decorator_new
  /\ panicked = FALSE
  /\ built = NotBuilt
  /\ before = Decorations_new(F_default)
  /\ nops = 0
  /\ plan \in Plans
  /\ done = 0
  /\ pending = {}

\* The next segment is appended: under its own face (set_face, append), or
\* under the default face (reset_face, append) to be set later.
PlanAppend ==
  /\ ~panicked
  /\ done < Len(plan)
  /\ LET seg == plan[done + 1]
         face == IF seg.method = "append" THEN seg.face ELSE F_default
     IN /\ current_face' = face
        /\ AppendBody(face, seg.text)
        /\ pending' = IF seg.method = "set" THEN pending \cup {done + 1} ELSE pending
  /\ done' = done + 1
  /\ UNCHANGED plan

\* The whole buffer is appended at once under the default face
\* (Decorator::with_text), every other face to be set later.
PlanAppendWhole ==
  /\ ~panicked
  /\ done = 0
  /\ \A i \in 1..Len(plan) : plan[i].face # F_default => plan[i].method = "set"
  /\ current_face' = F_default
  /\ AppendBody(F_default, PlanText(plan, Len(plan)))
  /\ pending' = {i \in 1..Len(plan) : plan[i].method = "set"}
  /\ done' = Len(plan)
  /\ UNCHANGED plan

\* set is called for a segment that was appended under the default face
PlanSet(i) ==
  /\ ~panicked
  /\ i \in pending
  /\ SetBody(plan[i].face, Len(PlanText(plan, i - 1)), Len(PlanText(plan, i)))
  /\ pending' = pending \ {i}
  /\ UNCHANGED <<current_face, plan, done>>

\* build, once every segment has its face
PlanBuild ==
  /\ ~panicked
  /\ done = Len(plan)
  /\ pending = {}
  /\ built.state = "none"
  /\ BuildBody
  /\ UNCHANGED <<plan, done, pending>>

NextPlan ==
  \/ PlanAppend
  \/ PlanAppendWhole
  \/ \E i \in 1..MaxSegs : PlanSet(i)
  \/ PlanBuild

SpecPlan == InitPlan /\ [][NextPlan]_vars

\* ------------------------------------------------------------- well-formed calls
\* Decorator::append of a non-empty text
append_positive(t) ==
  /\ ~panicked
  /\ nops < MaxCleanOps
  /\ t # << >>
  /\ Len(text) + Len(t) <= MaxLen
  /\ AppendBody(current_face, t)
  /\ UNCHANGED <<current_face, plan, done, pending>>

\* Decorator::set of a non-empty range that ends within the tree
set_within(face, start, end) ==
  /\ ~panicked
  /\ nops < MaxCleanOps
  /\ start < end
  /\ end <= Decorations_len(decorations)
  /\ SetBody(face, start, end)
  /\ UNCHANGED <<current_face, plan, done, pending>>

\* Decorator::new, or Decorator::with_text of a non-empty text
InitClean == Init /\ (lastOp.op = "append" => lastOp.len > 0)

NextClean ==
  \/ \E face \in Faces : set_face(face)
  \/ reset_face
  \/ \E t \in Texts : append_positive(t)
  \/ \E face \in Faces, start \in Offsets, end \in Offsets : set_within(face, start, end)
  \/ Decorator_build

SpecClean == InitClean /\ [][NextClean]_vars

\* ------------------------------------------------------------- properties
RECURSIVE SumLens(_, _)
\* The sum of the lengths of the first n flattened runs
SumLens(flat, n) == IF n = 0 THEN 0 ELSE SumLens(flat, n - 1) + flat[n][2]

\* Run i of flat is a run of face f over exactly the offsets [s, e)
IsRun(flat, i, f, s, e) ==
  /\ flat[i][1] = f
  /\ SumLens(flat, i - 1) = s
  /\ flat[i][2] = e - s

\* flat restricted to [s, e) is one run of face f
HasRun(flat, f, s, e) == \E i \in 1..Len(flat) : IsRun(flat, i, f, s, e)

\* The face flat gives offset p: that of the run whose offsets hold p
FlatFaceAt(flat, p) ==
  LET i == CHOOSE j \in 1..Len(flat) : SumLens(flat, j - 1) <= p /\ p < SumLens(flat, j)
  IN flat[i][1]

RECURSIVE PrefixLen(_, _)
\* The length of the first n fragments of a tree
PrefixLen(d, n) ==
  IF n = 0 THEN 0 ELSE PrefixLen(d, n - 1) + TextRange_len(d.fragments[n])

RECURSIVE TreeFaceAt(_, _)
\* The face the tree gives offset p, by descent from the root
TreeFaceAt(d, p) ==
  LET i == CHOOSE j \in 1..Len(d.fragments) : PrefixLen(d, j - 1) <= p /\ p < PrefixLen(d, j)
  IN IF d.fragments[i].kind = "Range" THEN d.face
     ELSE TreeFaceAt(d.fragments[i].d, p - PrefixLen(d, i - 1))

RECURSIVE CountRanges(_)
RECURSIVE CountRangesFrom(_, _)
CountRangesFrom(d, i) ==
  IF i > Len(d.fragments) THEN 0
  ELSE (IF d.fragments[i].kind = "Range" THEN 1 ELSE CountRanges(d.fragments[i].d))
       + CountRangesFrom(d, i + 1)

\* The number of Range leaves of a tree
CountRanges(d) == CountRangesFrom(d, 1)

\* The last call was a set, and it panicked
SetPanicked == lastOp.op = "set" /\ panicked /\ built.state = "none"

\* The last call was a set whose range lies within the tree it met
SetInBounds ==
  /\ lastOp.op = "set"
  /\ lastOp.start <= lastOp.end
  /\ lastOp.end <= Decorations_len(before)

\* C1: after set(f, start..end) with 0 <= start < end <= tree length, the call
\* has completed and the flattened runs restricted to [start, end) are exactly
\* one run of face f, wherever in the tree the range lies.
C1_SetOverridesFully ==
  (SetInBounds /\ lastOp.start < lastOp.end)
    => /\ ~SetPanicked
       /\ HasRun(Decorations_flatten(decorations), lastOp.face, lastOp.start, lastOp.end)

\* C2: after any sequence of append and set calls the tree length equals the
\* sum of the appended lengths, which is the length of the text buffer.
C2_LengthConservation == Decorations_len(decorations) = Len(text)

\* C3: Decorator::set never fails: for any start and end the call completes,
\* as a no-op when the range clamped to [0, length] has zero width and else
\* by overriding exactly the clamped range.
C3_SetNeverFails ==
  lastOp.op = "set" =>
    LET n == Decorations_len(before)
        cs == min(lastOp.start, n)
        ce == min(lastOp.end, n)
    IN /\ ~SetPanicked
       /\ IF cs >= ce THEN decorations = before
          ELSE HasRun(Decorations_flatten(decorations), lastOp.face, cs, ce)

\* C4: set with start = end is a no-op on every reachable tree, the empty one
\* included: the call completes and leaves the runs and flatten() as they were.
C4_ZeroLengthSetIsNoOp ==
  (lastOp.op = "set" /\ lastOp.start = lastOp.end)
    => /\ ~SetPanicked
       /\ decorations = before
       /\ Decorations_flatten(decorations) = Decorations_flatten(before)

\* C5: a set(f, r) with r within [0, length] that follows the same completed
\* set(f, r) completes too and leaves flatten() as the first call left it.
C5_SetIdempotent ==
  [][(SetInBounds /\ ~panicked /\ lastOp' = lastOp /\ nops' = nops + 1)
       => /\ ~panicked'
          /\ Decorations_flatten(decorations') = Decorations_flatten(decorations)]_vars

\* C6: append(f, a) followed by append(f, b) leaves the tree that the single
\* append(f, a + b) makes of the tree the first append met.
C6_AppendMerge ==
  [][(lastOp'.op = "append" /\ lastOp'.chained /\ nops' = nops + 1)
       => decorations' = Decorations_append(before, lastOp'.face, lastOp.len + lastOp'.len)]_vars

\* Two appends under one face have run on a tree that a set had changed: only
\* set nests a Decoration of the root's own face.
C6_Witness ==
  /\ lastOp.op = "append" /\ lastOp.chained /\ lastOp.len > 0
  /\ Decorations_len(decorations) = Len(text)
  /\ Len(decorations.fragments) >= 2
  /\ is_decoration_face(decorations.fragments[1], decorations.face)
  /\ TextRange_len(decorations.fragments[1]) > 0

\* C7: build() completes after any sequence of calls, and the text slices of
\* its fragments concatenate to the buffer: plain() is the buffer and
\* text_len() its length.
C7_BuildReconstructs ==
  built.state # "none"
    => /\ built.state = "ok"
       /\ plain(built.fragments) = text
       /\ text_len(built.fragments) = Len(text)

\* C8: the lengths of flatten() sum to the tree's length, flatten() has one run
\* per Range of the tree, and the runs come in the tree's left-to-right order:
\* every offset has in flatten() the face the tree gives it.
C8_FlattenComplete ==
  LET flat == Decorations_flatten(decorations)
      n == Decorations_len(decorations)
  IN /\ SumLens(flat, Len(flat)) = n
     /\ Len(flat) = CountRanges(decorations)
     /\ \A p \in 0..(n - 1) : FlatFaceAt(flat, p) = TreeFaceAt(decorations, p)

\* A tree that a set has split, with an override nested in an override
C8_Witness ==
  /\ SetInBounds /\ lastOp.start < lastOp.end /\ ~panicked
  /\ Decorations_len(decorations) = Len(text)
  /\ Len(Decorations_flatten(decorations)) >= 3
  /\ \E i \in 1..Len(decorations.fragments) :
       /\ decorations.fragments[i].kind = "Decoration"
       /\ \E j \in 1..Len(decorations.fragments[i].d.fragments) :
            decorations.fragments[i].d.fragments[j].kind = "Decoration"

RECURSIVE RunLengths(_, _)
\* The run-length encoding of the first n appended (face, length) calls
RunLengths(calls, n) ==
  IF n = 0 THEN << >>
  ELSE LET r == RunLengths(calls, n - 1)
       IN IF Len(r) > 0 /\ r[Len(r)][1] = calls[n][1]
          THEN [r EXCEPT ![Len(r)] = <<calls[n][1], r[Len(r)][2] + calls[n][2]>>]
          ELSE Append(r, calls[n])

\* C9: a tree built by non-empty appends alone flattens to the run-length
\* encoding of the appended faces, and no two adjacent runs share a face.
C9_AppendsFlattenToRuns ==
  log.pure =>
    LET flat == Decorations_flatten(decorations)
    IN /\ flat = RunLengths(log.calls, Len(log.calls))
       /\ \A i \in 1..(Len(flat) - 1) : flat[i][1] # flat[i + 1][1]

\* Appends have merged, and two runs of face Star stand apart around a Pipe run
C9_Witness ==
  LET flat == Decorations_flatten(decorations)
  IN /\ log.pure
     /\ Len(log.calls) > Len(flat)
     /\ \E i \in 1..(Len(flat) - 2) :
          flat[i][1] = "Star" /\ flat[i + 1][1] = "Pipe" /\ flat[i + 2][1] = "Star"

RECURSIVE PlanFragments(_, _)
\* The first n segments as text fragments
PlanFragments(p, n) ==
  IF n = 0 THEN << >>
  ELSE Append(PlanFragments(p, n - 1), [text |-> p[n].text, face |-> p[n].face])

\* C10: a buffer cut in segments, adjacent ones under different faces, builds
\* to the same fragments whether each segment is appended under its face or
\* appended under the default face and then set, the sets in any order and
\* the two methods in any mix; the fragments are the segments.
C10_AppendAndSetAgree ==
  (done = Len(plan) /\ pending = {} /\ built.state # "none")
    => /\ built.state = "ok"
       /\ AppendBuilt(plan).ok
       /\ built.fragments = AppendBuilt(plan).fragments
       /\ built.fragments = PlanFragments(plan, Len(plan))

\* A three-segment buffer is built by a mix: the first and last segments by
\* set, the last set first, the middle one by append under its own face.
C10_Witness ==
  /\ Len(plan) = 3 /\ done = 3 /\ pending = {} /\ built.state = "ok"
  /\ plan[1].method = "set" /\ plan[3].method = "set"
  /\ plan[2].method = "append" /\ plan[2].face # F_default
  /\ lastOp.op = "set" /\ lastOp.start = 0

\* C11: a completed set(f, start..end) within [0, length] changes the face of
\* no offset outside [start, end): every offset p < start or p >= end has in
\* flatten() the face it had before the call, also when the fast path
\* recursed into a nested run that starts at a non-zero offset of its parent.
C11_SetFrame ==
  (SetInBounds /\ ~panicked)
    => /\ Decorations_len(decorations) = Decorations_len(before)
       /\ \A p \in 0..(Decorations_len(before) - 1) :
            (p < lastOp.start \/ p >= lastOp.end)
              => FlatFaceAt(Decorations_flatten(decorations), p)
                   = FlatFaceAt(Decorations_flatten(before), p)

\* C12: set with 0 <= start <= end <= tree length resolves both offsets and
\* completes on every reachable tree: there is no out-of-bounds run index.
C12_SetResolves == SetInBounds => ~SetPanicked

\* C13: append(face, n) on a tree of length L, one that set has changed
\* included, makes the length L + n, leaves every offset in [0, L) its face
\* and gives every offset in [L, L + n) the face appended.
C13_AppendFrame ==
  lastOp.op = "append" =>
    LET L == Decorations_len(before)
        n == lastOp.len
        flat == Decorations_flatten(decorations)
    IN /\ Decorations_len(decorations) = L + n
       /\ \A p \in 0..(L - 1) :
            FlatFaceAt(flat, p) = FlatFaceAt(Decorations_flatten(before), p)
       /\ \A p \in L..(L + n - 1) : FlatFaceAt(flat, p) = lastOp.face

\* A non-empty append has recursed into the trailing nested run of its face,
\* a run that a set had split before (append alone keeps it a single Range).
C13_Witness ==
  /\ lastOp.op = "append" /\ lastOp.len > 0 /\ ~panicked
  /\ Decorations_len(decorations) = Len(text)
  /\ lastOp.face # before.face
  /\ Len(before.fragments) > 0
  /\ is_decoration_face(Last(before.fragments), lastOp.face)
  /\ Len(Last(before.fragments).d.fragments) >= 2

\* C15: Decorator::set with a reversed range (start > end) leaves the tree's
\* length what it was, the length of the text buffer.
C15_ReversedSetKeepsLength ==
  (lastOp.op = "set" /\ lastOp.start > lastOp.end
     /\ Decorations_len(before) = Len(text) /\ ~SetPanicked)
    => Decorations_len(decorations) = Len(text)

RECURSIVE NoZeroRuns(_)
\* No fragment of the tree, at any depth, has length zero
NoZeroRuns(d) ==
  \A i \in 1..Len(d.fragments) :
    /\ TextRange_len(d.fragments[i]) > 0
    /\ d.fragments[i].kind = "Decoration" => NoZeroRuns(d.fragments[i].d)

\* C14: when every append has positive length and every set range is
\* non-empty and within bounds, no tree holds a Range of length zero or a
\* Decoration of total length zero, and flatten() yields no run of length 0.
C14_NoZeroLengthRun ==
  LET flat == Decorations_flatten(decorations)
  IN /\ NoZeroRuns(decorations)
     /\ \A i \in 1..Len(flat) : flat[i][2] > 0

\* A set from offset 0 to a boundary between two runs has completed: both
\* trims came to nothing, and the override took the places of whole runs.
C14_Witness ==
  /\ SetInBounds /\ lastOp.start = 0 /\ lastOp.start < lastOp.end /\ ~panicked
  /\ \E i \in 1..(Len(before.fragments) - 1) : PrefixLen(before, i) = lastOp.end
  /\ Len(decorations.fragments) >= 2
  /\ decorations.fragments[1] = Decoration(with_len(lastOp.face, lastOp.end))

RECURSIVE NoAdjacentRanges(_)
\* No two neighbouring fragments of the tree, at any depth, are both Ranges
NoAdjacentRanges(d) ==
  /\ \A i \in 1..(Len(d.fragments) - 1) :
       ~(is_range(d.fragments[i]) /\ is_range(d.fragments[i + 1]))
  /\ \A i \in 1..Len(d.fragments) :
       d.fragments[i].kind = "Decoration" => NoAdjacentRanges(d.fragments[i].d)

\* C16: in every tree reachable by append and set calls, at every nesting
\* level, no two adjacent runs are both Ranges: set puts its override between
\* the remainders it keeps.
C16_NoAdjacentRanges == NoAdjacentRanges(decorations)

\* A set has cut a Range in three: its head, the override, its tail
C16_Witness ==
  /\ SetInBounds /\ lastOp.start < lastOp.end /\ ~panicked
  /\ Decorations_len(decorations) = Len(text)
  /\ Len(decorations.fragments) = Len(before.fragments) + 2
  /\ \E i \in 1..(Len(decorations.fragments) - 2) :
       /\ is_range(decorations.fragments[i])
       /\ decorations.fragments[i + 1] =
            Decoration(with_len(lastOp.face, lastOp.end - lastOp.start))
       /\ is_range(decorations.fragments[i + 2])
       /\ PrefixLen(decorations, i) = lastOp.start

RECURSIVE Subtrees(_)
\* The tree and every tree nested in it
Subtrees(d) ==
  {d} \cup UNION {Subtrees(d.fragments[i].d) :
                   i \in {j \in 1..Len(d.fragments) : d.fragments[j].kind = "Decoration"}}

\* The runs of the tree at every depth, each with the face of its parent
RunsOf(d) ==
  UNION {{<<t.fragments[i], t.face>> : i \in 1..Len(t.fragments)} : t \in Subtrees(d)}

\* The face of each offset of a run (of a trim result: none for None)
RunFaces(tr, face) ==
  IF tr.kind \in {"None", "Panic"} THEN << >>
  ELSE LET flat == IF tr.kind = "Range" THEN <<<<face, tr.len>>>>
                   ELSE Decorations_flatten(tr.d)
       IN [p \in 1..SumLens(flat, Len(flat)) |-> FlatFaceAt(flat, p - 1)]

\* The length of a trim result (zero for None)
TrimLen(tr) == IF tr.kind \in {"None", "Panic"} THEN 0 ELSE TextRange_len(tr)

\* C17: for every run of a reachable tree, of length L, and every offset o in
\* 0..L, keep_start(o) has length o (None when o = 0) and the faces of the
\* run's offsets [0, o), and keep_end(o) has length L - o (None when o >= L)
\* and the faces of the offsets [o, L).
C17_TrimPartition ==
  \A run \in RunsOf(decorations) :
    LET tr == run[1]
        L == TextRange_len(tr)
        all == RunFaces(tr, run[2])
    IN \A o \in 0..L :
         LET ks == keep_start(tr, o)
             ke == keep_end(tr, o)
         IN /\ ks.kind # "Panic" /\ ke.kind # "Panic"
            /\ (ks.kind = "None") = (o = 0)
            /\ (ke.kind = "None") = (o >= L)
            /\ TrimLen(ks) = o
            /\ TrimLen(ke) = L - o
            /\ RunFaces(ks, run[2]) = SubSeq(all, 1, o)
            /\ RunFaces(ke, run[2]) = SubSeq(all, o + 1, L)

\* A set has trimmed two nested runs inside: it kept a proper head of the
\* Decoration its start fell in and a proper tail of the one its end fell in.
C17_Witness ==
  /\ SetInBounds /\ lastOp.start < lastOp.end /\ ~panicked
  /\ LET s == fragment_index_of(before, lastOp.start)
         e == fragment_index_of(before, lastOp.end)
     IN /\ s.ok /\ e.ok /\ s.idx # e.idx
        /\ before.fragments[s.idx + 1].kind = "Decoration"
        /\ before.fragments[e.idx + 1].kind = "Decoration"
        /\ keep_start(before.fragments[s.idx + 1], lastOp.start - s.off).kind = "Decoration"
        /\ keep_end(before.fragments[e.idx + 1], lastOp.end - e.off).kind = "Decoration"
        /\ lastOp.start - s.off < TextRange_len(before.fragments[s.idx + 1])
        /\ lastOp.end - e.off > 0

\* C18: on a tree with at least one run and for every offset in 0..length,
\* fragment_index_of returns (i, s) with i the smallest run index whose
\* cumulative end is >= offset and s the summed length of the runs before i;
\* so s <= offset, and an offset on a boundary resolves to the run ending there.
C18_OffsetResolution ==
  \A t \in Subtrees(decorations) :
    Len(t.fragments) > 0 =>
      \A offset \in 0..Decorations_len(t) :
        LET r == fragment_index_of(t, offset)
        IN /\ r.ok
           /\ PrefixLen(t, r.idx + 1) >= offset
           /\ \A j \in 0..(r.idx - 1) : PrefixLen(t, j + 1) < offset
           /\ r.off = PrefixLen(t, r.idx)
           /\ r.off <= offset

\* A set began on the boundary between two runs of a tree of three or more
\* runs, and its start resolved to the run ending there.
C18_Witness ==
  /\ SetInBounds /\ lastOp.start < lastOp.end /\ ~panicked
  /\ Len(before.fragments) >= 3
  /\ \E i \in 1..(Len(before.fragments) - 1) :
       /\ PrefixLen(before, i) = lastOp.start
       /\ PrefixLen(before, i - 1) < lastOp.start
       /\ fragment_index_of(before, lastOp.start).idx = i - 1

============================================================================
